---- MODULE Spec2Model ----
(***************************************************************************)
(* Model of the extension's background service worker (VTONBackground):   *)
(* the tryOn and createVideo message handlers, the TTL cache kept in      *)
(* chrome.storage.local, the capped history list and the URL hash that    *)
(* builds the cache key.  Time is Date.now() in milliseconds; a handler    *)
(* runs within one millisecond, and time passes between two messages.     *)
(***************************************************************************)
EXTENDS Integers, Sequences, FiniteSets, TLC

VARIABLES
    cache,          \* chrome.storage.local, the keys written by saveToCache
    history,        \* chrome.storage.local, the key 'history'
    now,            \* Date.now()
    last,           \* the last message handled: request, provider outcome, response
    providerCalls,  \* number of fetch calls made to the services so far
    nreq,           \* number of messages handled so far
    ticked,         \* whether time has passed since the last message
    gens,           \* every entry updateUserHistory was given, newest first
    gen,            \* per request: its last response that came from the provider
    storedUserId,   \* chrome.storage.local, the key 'userId'
    settings,       \* chrome.storage.local, the key 'settings'
    tryOnHistory,   \* chrome.storage.local, the key 'tryOnHistory'
    popup,          \* the popup: its last try-on of the current page
    procs,          \* the messages in flight: how far handleMessage has run
    envLoader,      \* window.envLoader (EnvLoader): envVars, loaded
    gemini,         \* a VTONGemini instance: apiKey, its last tryOn
    standalone,     \* StandaloneVTON.performTryOns: the --all loop
    atelier         \* the Atelier console: classes of its root, callbacks due

vars == <<cache, history, now, last, providerCalls, nreq, ticked, gens, gen,
          storedUserId, settings, tryOnHistory, popup, procs, envLoader,
          gemini, standalone, atelier>>

\* the state of the pages and of the script beside the service worker
pageVars == <<envLoader, gemini, standalone, atelier>>

-----------------------------------------------------------------------------
(* Bounds of the model *)

MaxRequests == 2

\* try-ons started from the popup
MaxTryOns == 2

\* messages whose handlers run interleaved
MaxInflight == 2

-----------------------------------------------------------------------------
(* Values *)

\* JavaScript's undefined, where a string-valued field is read and absent
Undefined == "<undefined>"

Users == {"u1", "u2"}
Selfies == {"s1", "s2"}
ProductImages == {"p1", "p2"}
ProductUrls == {"Aa", "BB", "zzzzzz"}
Artifacts == {"a1", "a2"}

\* url.charCodeAt(i) for the product URLs of the model
CharCodes ==
    [u \in ProductUrls |->
        CASE u = "Aa" -> <<65, 97>>
          [] u = "BB" -> <<66, 66>>
          [] u = "zzzzzz" -> <<122, 122, 122, 122, 122, 122>>]

Min(a, b) == IF a < b THEN a ELSE b

-----------------------------------------------------------------------------
(* hashUrl: a 32-bit integer is kept as two 16-bit halves <<hi, lo>>, its   *)
(* unsigned value being hi * 65536 + lo                                    *)

Half == 2 ^ 16

\* hash = ((hash << 5) - hash) + char; hash = hash & hash
HashStep(h, c) ==
    LET lo1 == h[2] * 31 + c
        hi1 == h[1] * 31 + (lo1 \div Half)
    IN  <<hi1 % Half, lo1 % Half>>

RECURSIVE HashLoop(_, _, _)
HashLoop(codes, i, h) ==
    IF i > Len(codes) THEN h ELSE HashLoop(codes, i + 1, HashStep(h, codes[i]))

\* the sign bit of the 32-bit integer
IsNegative(h) == h[1] >= 32768

\* Math.abs(hash): the magnitude of the two's complement value (2^31 for -2^31)
MathAbs(h) ==
    IF ~IsNegative(h) THEN h
    ELSE IF h[2] = 0 THEN <<Half - h[1], 0>>
    ELSE <<Half - 1 - h[1], Half - h[2]>>

\* Number.prototype.toString(36): the base-36 digits, most significant first
RECURSIVE ToString36(_)
ToString36(m) ==
    LET rest == (m[1] % 36) * Half + m[2]
        q == <<m[1] \div 36, rest \div 36>>
        d == rest % 36
    IN  IF q = <<0, 0>> THEN <<d>> ELSE Append(ToString36(q), d)

hashUrl(url) == ToString36(MathAbs(HashLoop(CharCodes[url], 1, <<0, 0>>)))

-----------------------------------------------------------------------------
(* Message data: a JavaScript object is the sequence of its <<name, value>> *)
(* pairs in insertion order; a missing property is a missing pair           *)

Has(data, f) == \E i \in 1..Len(data) : data[i][1] = f

Get(data, f) == data[CHOOSE i \in 1..Len(data) : data[i][1] = f][2]

\* const { f } = data, for a string-valued property
Destructure(data, f) == IF Has(data, f) THEN Get(data, f) ELSE Undefined

\* const { f = d } = data
DestructureDefault(data, f, d) == IF Has(data, f) THEN Get(data, f) ELSE d

\* the properties of an object, whatever their order
Props(data) == {data[i] : i \in 1..Len(data)}

Reverse(s) == [i \in 1..Len(s) |-> s[Len(s) + 1 - i]]

\* an object without property f
Without(data, f) == SelectSeq(data, LAMBDA p : p[1] # f)

\* an object with property f set to v
With(data, f, v) == [i \in 1..Len(data) |-> IF data[i][1] = f THEN <<f, v>> ELSE data[i]]

FullTryOnData ==
    << <<"userId", "u1">>, <<"selfieUrl", "s1">>, <<"productUrl", "Aa">>,
       <<"productImageUrl", "p1">> >>

\* a request and the requests that differ from it in one property
\* and the same request with its properties in another order
TryOnData ==
    {With(FullTryOnData, "userId", u) : u \in Users}
        \cup {With(FullTryOnData, "selfieUrl", x) : x \in Selfies}
        \cup {With(FullTryOnData, "productUrl", x) : x \in ProductUrls}
        \cup {With(FullTryOnData, "productImageUrl", x) : x \in ProductImages}
        \cup {Without(FullTryOnData, "productUrl"), Reverse(FullTryOnData)}

FullVideoData ==
    << <<"userId", "u1">>, <<"imageUrl", "img1">>, <<"action", "turn">>,
       <<"duration", 4>>, <<"aspect", "9:16">> >>

VideoData ==
    {FullVideoData,
     Reverse(FullVideoData),
     Without(Without(FullVideoData, "duration"), "aspect"),
     With(FullVideoData, "duration", 10),
     With(FullVideoData, "aspect", "4:3"),
     Without(FullVideoData, "userId"),
     Without(FullVideoData, "imageUrl")}

-----------------------------------------------------------------------------
(* The services behind fetch: what one call can come back with *)

\* the JSON value null as a response body
NullBody == [isNull |-> TRUE, url |-> Undefined]

\* a JSON object; url is its image_url (try_on) or video_url (animate)
ObjectBody(u) == [isNull |-> FALSE, url |-> u]

Bodies == {NullBody} \cup {ObjectBody(u) : u \in Artifacts}

FailureKinds == {"network_error", "http_error", "bad_json"}

Outcomes ==
    {[kind |-> k, body |-> NullBody] : k \in FailureKinds}
        \cup {[kind |-> "json", body |-> b] : b \in Bodies}

-----------------------------------------------------------------------------
(* Cache *)

TryOnTtlMs == 24 * 60 * 60 * 1000

\* a key that also holds the time of the call
CacheKeyTimed(userId, productUrl) ==
    <<"tryon", userId, hashUrl(productUrl) \o <<now % 36>> >>

\* `tryon_${userId}_${this.hashUrl(productUrl)}`
CacheKey(userId, productUrl) == <<"tryon", userId, hashUrl(productUrl)>>

\* an entry is still served at its expiry time
GetFromCacheInclusive(store, key, t) ==
    IF key \in DOMAIN store /\ store[key].expiry >= t
    THEN store[key].data
    ELSE [isNull |-> TRUE, url |-> Undefined]

\* getFromCache at time t: the entry's data, or null
GetFromCache(store, key, t) ==
    IF key \in DOMAIN store /\ store[key].expiry > t
    THEN store[key].data
    ELSE NullBody

\* the time-to-live taken as seconds
SaveToCacheTtlSeconds(store, key, data, ttlMs, t) ==
    (key :> [data |-> data, expiry |-> t + (ttlMs \div 1000)]) @@ store

\* an entry already stored under the key is kept: the first write wins
SaveToCacheKeepFirst(store, key, data, ttlMs, t) ==
    store @@ (key :> [data |-> data, expiry |-> t + ttlMs])

\* saveToCache at time t
SaveToCache(store, key, data, ttlMs, t) ==
    (key :> [data |-> data, expiry |-> t + ttlMs]) @@ store

\* if (cached)
Truthy(body) == ~body.isNull

-----------------------------------------------------------------------------
(* History *)

MaxHistoryLength == 20
SpliceStart == 20

TryOnEntry(productUrl, imageUrl, t) ==
    [type |-> "tryon", productUrl |-> productUrl, imageUrl |-> imageUrl,
     action |-> Undefined, videoUrl |-> Undefined, timestamp |-> t]

VideoEntry(action, videoUrl, t) ==
    [type |-> "video", productUrl |-> Undefined, imageUrl |-> Undefined,
     action |-> action, videoUrl |-> videoUrl, timestamp |-> t]

\* history.slice(start), which leaves the list as it is
Slice(h, start) == h

\* history.splice(start): keeps the first start entries
Splice(h, start) == SubSeq(h, 1, Min(start, Len(h)))

\* history.push(entry): the entry goes to the tail
UpdateUserHistoryPush(h, userId, entry) ==
    LET pushed == Append(h, entry)
    IN  IF Len(pushed) > 20 THEN SubSeq(pushed, 1, 20) ELSE pushed

\* updateUserHistory: the list stored under 'history' afterwards
UpdateUserHistory(h, userId, entry) ==
    LET unshifted == <<entry>> \o h
    IN  IF Len(unshifted) > MaxHistoryLength
        THEN Splice(unshifted, SpliceStart)
        ELSE unshifted

-----------------------------------------------------------------------------------------------------------------------------------------------------
(* Handlers.  A handler's run is the record of what it left behind: the    *)
(* stored cache and history, the value returned or the error thrown, the   *)
(* cache key it computed, the fetch calls made and the history entries     *)
(* appended                                                                *)

NoKey == << >>

Returned(store, h, key, value, hasFlag, flag, calls, appended) ==
    [cache |-> store, history |-> h, key |-> key, threw |-> "",
     url |-> value.url, hasCacheHit |-> hasFlag, cache_hit |-> flag,
     calls |-> calls, appended |-> appended]

Threw(store, h, key, error, calls) ==
    [cache |-> store, history |-> h, key |-> key, threw |-> error,
     url |-> Undefined, hasCacheHit |-> FALSE, cache_hit |-> FALSE,
     calls |-> calls, appended |-> << >>]

\* fetch without the response.ok test: an error response is parsed as a result
FetchNoOkCheck(out, serviceError) ==
    [calls |-> 1,
     threw |-> CASE out.kind = "network_error" -> "TypeError: Failed to fetch"
                 [] out.kind = "bad_json" -> "SyntaxError"
                 [] OTHER -> "",
     result |-> IF out.kind = "http_error"
                THEN [isNull |-> FALSE, url |-> Undefined] ELSE out.body]

\* fetch called again after a failure
FetchRetry(out, serviceError) ==
    [calls |-> IF out.kind = "json" THEN 1 ELSE 2,
     threw |-> CASE out.kind = "network_error" -> "TypeError: Failed to fetch"
                 [] out.kind = "http_error" -> serviceError
                 [] out.kind = "bad_json" -> "SyntaxError"
                 [] OTHER -> "",
     result |-> out.body]

\* await fetch(...); if (!response.ok) throw ...; await response.json():
\* one call, and the error thrown or the body parsed
Fetch(out, serviceError) ==
    [calls |-> 1,
     threw |-> CASE out.kind = "network_error" -> "TypeError: Failed to fetch"
                 [] out.kind = "http_error" -> serviceError
                 [] out.kind = "bad_json" -> "SyntaxError"
                 [] OTHER -> "",
     result |-> out.body]

\* a cache hit that goes on to updateUserHistory
TryOnHitLogged(key, cached) ==
    Returned(cache,
             UpdateUserHistory(history, key[2], TryOnEntry(Undefined, cached.url, now)),
             key, cached, TRUE, TRUE, 0, << >>)

\* handleTryOn, if (cached): return { ...cached, cache_hit: true }
TryOnHit(key, cached) ==
    Returned(cache, history, key, cached, TRUE, TRUE, 0, << >>)

\* a getFromCache that removes the entry it found expired
TryOnMissEvicting(userId, productUrl, key, out) ==
    LET response == Fetch(out, "Try-on service error")
        result == response.result
        evicted == [k \in DOMAIN cache \ {key} |-> cache[k]]
        saved == SaveToCache(evicted, key, result, TryOnTtlMs, now)
        entry == TryOnEntry(productUrl, result.url, now)
    IN  IF response.threw # ""
        THEN Threw(evicted, history, key, response.threw, response.calls)
        ELSE IF result.isNull
        THEN Threw(saved, history, key, "TypeError", response.calls)
        ELSE Returned(saved, UpdateUserHistory(history, userId, entry), key,
                      result, TRUE, FALSE, response.calls, <<entry>>)

\* handleTryOn past the cache, the service answering out
TryOnMiss(userId, productUrl, key, out) ==
    LET response == Fetch(out, "Try-on service error")
        result == response.result
        saved == SaveToCache(cache, key, result, TryOnTtlMs, now)
        entry == TryOnEntry(productUrl, result.url, now)
    IN  IF response.threw # ""
        THEN Threw(cache, history, key, response.threw, response.calls)
        ELSE IF result.isNull
        THEN \* saved, then result.image_url of null throws
             Threw(saved, history, key, "TypeError", response.calls)
        ELSE Returned(saved, UpdateUserHistory(history, userId, entry), key,
                      result, TRUE, FALSE, response.calls, <<entry>>)

\* handleTryOn, the service answering out
handleTryOn(data, out) ==
    LET userId == Destructure(data, "userId")
    IN  IF ~Has(data, "productUrl")
        THEN \* hashUrl reads url.length of undefined
             Threw(cache, history, NoKey, "TypeError", 0)
        ELSE
        LET productUrl == Get(data, "productUrl")
            cacheKey == CacheKey(userId, productUrl)
            cached == GetFromCache(cache, cacheKey, now)
        IN  IF Truthy(cached)
            THEN TryOnHit(cacheKey, cached)
            ELSE TryOnMiss(userId, productUrl, cacheKey, out)

\* handleCreateVideo, the service answering out
handleCreateVideo(data, out) ==
    LET userId == Destructure(data, "userId")
        action == Destructure(data, "action")
        duration == DestructureDefault(data, "duration", 4)
        aspect == DestructureDefault(data, "aspect", "9:16")
        response == Fetch(out, "Video service error")
        result == response.result
        entry == VideoEntry(action, result.url, now)
    IN  IF response.threw # ""
        THEN Threw(cache, history, NoKey, response.threw, response.calls)
        ELSE IF result.isNull
        THEN \* result.video_url of null throws
             Threw(cache, history, NoKey, "TypeError", response.calls)
        ELSE Returned(cache, UpdateUserHistory(history, userId, entry), NoKey,
                      result, FALSE, FALSE, response.calls, <<entry>>)

\* getUserData without the defaults: an absent key is returned as undefined
getUserDataNoDefault(data) ==
    [userId |-> data.userId,
     settings |-> data.settings,
     historyIsList |-> "history" \in data.present,
     history |-> data.history]

\* getUserData over data, the stored values of 'userId', 'settings' and
\* 'history': history: data.history || []
getUserData(data) ==
    [userId |-> data.userId,
     settings |-> data.settings,
     historyIsList |-> TRUE,
     history |-> IF "history" \in data.present THEN data.history ELSE << >>]

\* handleMessage: sendResponse({success: true, data}) or, from the catch,
\* sendResponse({success: false, error: error.message})
SendResponse(run) ==
    [success |-> run.threw = "", error |-> run.threw, url |-> run.url,
     hasCacheHit |-> run.hasCacheHit, cache_hit |-> run.cache_hit]

-----------------------------------------------------------------------------
(* The state machine *)

NoGeneration == [known |-> FALSE, url |-> Undefined, time |-> 0]

\* initializeExtension: the settings written when the extension is installed
DefaultSettings ==
    [autoDetect |-> TRUE, showNotifications |-> TRUE, cacheResults |-> TRUE]

\* the user id initializeExtension stored
InstalledUserId == "u1"

\* chrome.storage.local.get(['userId', 'settings', 'history']): a key never
\* written is absent from the object read
StorageGet(h) ==
    [present |-> {"userId", "settings"}
                     \cup (IF h = << >> THEN {} ELSE {"history"}),
     userId |-> storedUserId, settings |-> settings, history |-> h]

\* the data of a response that is not one of getUserData
NoUserData ==
    [userId |-> Undefined, settings |-> DefaultSettings,
     historyIsList |-> FALSE, history |-> << >>]

\* last before any message: no request, no response
NoMessage ==
    [action |-> "none", req |-> {}, kind |-> "none", calls |-> 0, key |-> NoKey,
     time |-> 0, prior |-> NoGeneration, cacheBefore |-> << >>,
     historyBefore |-> << >>,
     resp |-> [success |-> FALSE, error |-> "", url |-> Undefined,
               hasCacheHit |-> FALSE, cache_hit |-> FALSE],
     userData |-> NoUserData]

\* a message slot: handleMessage has not been called
Idle ==
    [pc |-> "idle", action |-> "none", key |-> NoKey,
     result |-> [isNull |-> TRUE, url |-> Undefined],
     entry |-> TryOnEntry(Undefined, Undefined, 0), local |-> << >>,
     calls |-> 0, responses |-> 0, success |-> FALSE, error |-> "",
     storeFailed |-> FALSE, logged |-> FALSE, saved |-> FALSE,
     url |-> Undefined, hasCacheHit |-> FALSE, cache_hit |-> FALSE]

NoProcs == [p \in 1..MaxInflight |-> Idle]

\* new EnvLoader(): envVars = {}, loaded = false; nothing fetched or called
NewEnvLoader ==
    [envVars |-> << >>, loaded |-> FALSE, fetches |-> 0, calls |-> 0,
     source |-> << >>,
     last |-> [op |-> "none", key |-> "", fetched |-> FALSE,
               fetchFailed |-> FALSE, threw |-> FALSE, returned |-> << >>,
               value |-> Undefined]]

\* no VTONGemini instance has run tryOn
NoGemini ==
    [apiKey |-> Undefined, hasEnvLoader |-> FALSE, count |-> 0,
     last |-> [settled |-> "none", success |-> FALSE, imageData |-> "",
               error |-> "", endpointCalls |-> 0, garmentFetches |-> 0,
               hadKey |-> FALSE, failure |-> "none"]]

\* performTryOns has not been called
NotStarted ==
    [n |-> 0, pc |-> "idle", i |-> 0, j |-> 0, attempts |-> << >>,
     processed |-> 0, lastError |-> ""]

\* the console as setupConsoleEventListeners finds it: collapsed
Collapsed ==
    [expanded |-> FALSE, visible |-> FALSE, passportOpen |-> FALSE,
     panelVisible |-> FALSE, keydown |-> FALSE, clickOutside |-> FALSE,
     due |-> << >>, events |-> 0, lastEvent |-> "none"]

PagesFresh ==
    /\ envLoader = NewEnvLoader
    /\ gemini = NoGemini
    /\ standalone = NotStarted
    /\ atelier = Collapsed

\* the popup before any try-on
NoTryOn == [count |-> 0, ticked |-> FALSE, toast |-> "", saved |-> FALSE,
            before |-> << >>]

\* storage survives the service worker: it starts with the history earlier
\* runs left, h video entries made at times 0 .. h - 1
StoredHistory(h) == [i \in 1..h |-> VideoEntry("turn", "a0", h - i)]

PreLens == {0, MaxHistoryLength - 1}

Init ==
    \E h \in PreLens :
        /\ cache = << >>
        /\ history = StoredHistory(h)
        /\ gens = StoredHistory(h)
        /\ now = h
        /\ last = NoMessage
        /\ providerCalls = 0
        /\ nreq = 0
        /\ ticked = FALSE
        /\ gen = << >>
        /\ storedUserId = InstalledUserId
        /\ settings = DefaultSettings
        /\ tryOnHistory = << >>
        /\ popup = NoTryOn
        /\ procs = NoProcs
        /\ PagesFresh

\* what the run of a handler does to the state
Handled(action, data, out, run) ==
    /\ cache' = run.cache
    /\ history' = run.history
    /\ providerCalls' = providerCalls + run.calls
    /\ nreq' = nreq + 1
    /\ gens' = run.appended \o gens
    /\ last' = [action |-> action, req |-> Props(data),
                kind |-> IF run.calls = 0 THEN "none" ELSE out.kind,
                calls |-> run.calls, key |-> run.key, time |-> now,
                prior |-> IF Props(data) \in DOMAIN gen
                          THEN gen[Props(data)] ELSE NoGeneration,
                cacheBefore |-> cache, historyBefore |-> history,
                resp |-> SendResponse(run), userData |-> NoUserData]
    /\ gen' = IF action = "tryOn" /\ run.threw = "" /\ run.calls > 0
              THEN (Props(data) :> [known |-> TRUE, url |-> run.url, time |-> now])
                       @@ gen
              ELSE gen
    /\ ticked' = FALSE
    /\ UNCHANGED <<now, storedUserId, settings, tryOnHistory, popup, procs,
                   pageVars>>

\* case 'tryOn'
TryOn ==
    /\ nreq < MaxRequests
    /\ \E data \in TryOnData, out \in Outcomes :
           Handled("tryOn", data, out, handleTryOn(data, out))

\* case 'createVideo'
CreateVideo ==
    /\ nreq < MaxRequests
    /\ \E data \in VideoData, out \in Outcomes :
           Handled("createVideo", data, out, handleCreateVideo(data, out))

\* case 'getUserData': the stored user id, settings and history are read and
\* sent back; nothing is written
GetUserData ==
    /\ nreq < MaxRequests
    /\ nreq' = nreq + 1
    /\ last' = [action |-> "getUserData", req |-> {}, kind |-> "none",
                calls |-> 0, key |-> NoKey, time |-> now,
                prior |-> NoGeneration, cacheBefore |-> cache,
                historyBefore |-> history,
                resp |-> [success |-> TRUE, error |-> "", url |-> Undefined,
                          hasCacheHit |-> FALSE, cache_hit |-> FALSE],
                userData |-> getUserData(StorageGet(history))]
    /\ ticked' = FALSE
    /\ UNCHANGED <<cache, history, now, providerCalls, gens, gen,
                   storedUserId, settings, tryOnHistory, popup, procs,
                   pageVars>>

TickSteps == {TryOnTtlMs - 1, TryOnTtlMs, TryOnTtlMs + 1}

\* time passes between two messages
Tick ==
    /\ 0 < nreq /\ nreq < MaxRequests
    /\ ~ticked
    /\ \E d \in TickSteps : now' = now + d
    /\ ticked' = TRUE
    /\ UNCHANGED <<cache, history, last, providerCalls, nreq, gens, gen,
                   storedUserId, settings, tryOnHistory, popup, procs,
                   pageVars>>

Next == TryOn \/ CreateVideo \/ GetUserData \/ Tick

Spec == Init /\ [][Next]_vars

-----------------------------------------------------------------------------
(* The profile page next to the service worker: the user switches the      *)
(* 'Cache results' setting between messages                                *)

\* ProfilePage.updateSetting(key, value):
\* chrome.storage.local.set({settings: {...settings, [key]: value}})
updateSetting(stored, key, value) == [stored EXCEPT ![key] = value]

\* the change listener of the cache-results checkbox
CacheResultsChange ==
    /\ \E checked \in BOOLEAN :
           settings' = updateSetting(settings, "cacheResults", checked)
    /\ UNCHANGED <<cache, history, now, last, providerCalls, nreq, ticked,
                   gens, gen, storedUserId, tryOnHistory, popup, procs,
                   pageVars>>

NextSettings == TryOn \/ CreateVideo \/ GetUserData \/ Tick \/ CacheResultsChange

SpecSettings == Init /\ [][NextSettings]_vars

-----------------------------------------------------------------------------
(* The popup (VTONPopup): a try-on of the current page made with Gemini    *)
(* directly, its result kept under the storage key 'tryOnHistory'          *)

PopupHistoryLimit == 50

ImageData == {"i1", "i2"}

\* what callGeminiTryOn does: it throws without an API key, returns
\* {success: false, error} when the call fails, {success: true, imageData}
\* when an image came back
GeminiOutcomes ==
    {[kind |-> "no_api_key", imageData |-> Undefined],
     [kind |-> "failed", imageData |-> Undefined]}
        \cup {[kind |-> "image", imageData |-> i] : i \in ImageData}

\* the tryOnResult object
TryOnResult(personImage, garmentImage, imageData, t) ==
    [id |-> <<"tryon", t>>, personImage |-> personImage,
     garmentImage |-> garmentImage, resultImage |-> imageData, timestamp |-> t]

\* list.slice(0, end)
SliceTo(list, end) == SubSeq(list, 1, Min(end, Len(list)))

\* triggerTryOnCurrentPage over the stored tryOnHistory: the list it leaves
\* and the toast it shows last
triggerTryOnCurrentPage(stored, isProductPage, profileImage, garmentImage, out, t) ==
    IF ~isProductPage
    THEN [tryOnHistory |-> stored, saved |-> FALSE,
          toast |-> "Please navigate to a product page first"]
    ELSE IF profileImage = Undefined
    THEN [tryOnHistory |-> stored, saved |-> FALSE,
          toast |-> "Please set up your profile image first"]
    ELSE IF garmentImage = Undefined
    THEN [tryOnHistory |-> stored, saved |-> FALSE,
          toast |-> "Could not detect product image on this page"]
    ELSE IF out.kind # "image"
    THEN [tryOnHistory |-> stored, saved |-> FALSE, toast |-> "Try-on failed"]
    ELSE [tryOnHistory |->
              SliceTo(<<TryOnResult(profileImage, garmentImage, out.imageData, t)>>
                          \o stored, PopupHistoryLimit),
          saved |-> TRUE, toast |-> "Try-on complete"]

\* the tryOnHistory earlier try-ons left: n results made at times 0 .. n - 1
StoredTryOns(n) == [i \in 1..n |-> TryOnResult("s1", "p1", "i1", n - i)]

PopupPreLens == {0, MaxHistoryLength - 1, MaxHistoryLength}

InitPopup ==
    \E n \in PopupPreLens :
        /\ cache = << >>
        /\ history = << >>
        /\ gens = << >>
        /\ now = n
        /\ last = NoMessage
        /\ providerCalls = 0
        /\ nreq = 0
        /\ ticked = FALSE
        /\ gen = << >>
        /\ storedUserId = InstalledUserId
        /\ settings = DefaultSettings
        /\ tryOnHistory = StoredTryOns(n)
        /\ popup = NoTryOn
        /\ procs = NoProcs
        /\ PagesFresh

\* the user clicks 'Try on current page'
TriggerTryOn ==
    /\ popup.count < MaxTryOns
    /\ \E isProductPage \in BOOLEAN, profileImage \in {Undefined, "s1"},
          garmentImage \in {Undefined, "p1", "p2"}, out \in GeminiOutcomes :
           LET run == triggerTryOnCurrentPage(tryOnHistory, isProductPage,
                                              profileImage, garmentImage, out, now)
           IN  /\ tryOnHistory' = run.tryOnHistory
               /\ popup' = [count |-> popup.count + 1, ticked |-> FALSE,
                            toast |-> run.toast, saved |-> run.saved,
                            before |-> tryOnHistory]
    /\ UNCHANGED <<cache, history, now, last, providerCalls, nreq, ticked,
                   gens, gen, storedUserId, settings, procs,
                   pageVars>>

\* time passes between two try-ons
PopupTick ==
    /\ 0 < popup.count /\ popup.count < MaxTryOns
    /\ ~popup.ticked
    /\ now' = now + 1
    /\ popup' = [popup EXCEPT !.ticked = TRUE]
    /\ UNCHANGED <<cache, history, last, providerCalls, nreq, ticked, gens,
                   gen, storedUserId, settings, tryOnHistory, procs,
                   pageVars>>

NextPopup == TriggerTryOn \/ PopupTick

SpecPopup == InitPopup /\ [][NextPopup]_vars

-----------------------------------------------------------------------------
(* handleMessage step by step.  The listener returns true and the handler  *)
(* runs on as an async function, so the handlers of several messages       *)
(* interleave at every await: the storage reads and writes and the fetch.  *)

Slots == 1..MaxInflight

\* the messages of this specification: one of each action, and an action
\* handleMessage has no case for
Messages ==
    {[action |-> "tryOn", data |-> FullTryOnData],
     [action |-> "createVideo", data |-> FullVideoData],
     [action |-> "getUserData", data |-> << >>],
     [action |-> "ping", data |-> << >>]}

InitAsync ==
    /\ cache = << >>
    /\ history = << >>
    /\ gens = << >>
    /\ now = 0
    /\ last = NoMessage
    /\ providerCalls = 0
    /\ nreq = 0
    /\ ticked = FALSE
    /\ gen = << >>
    /\ storedUserId = InstalledUserId
    /\ settings = DefaultSettings
    /\ tryOnHistory = << >>
    /\ popup = NoTryOn
    /\ procs = NoProcs
    /\ PagesFresh

\* sendResponse({success: true, ...}) at the end of a case, or
\* sendResponse({success: false, error}) from the catch or the default case
Respond(proc, success, error) ==
    [proc EXCEPT !.pc = "done", !.responses = @ + 1, !.success = success,
                 !.error = error]

\* the handler returned value; hasFlag tells whether the object returned has
\* a cache_hit property
Return(proc, value, hasFlag, flag) ==
    Respond([proc EXCEPT !.url = value.url, !.hasCacheHit = hasFlag,
                         !.cache_hit = flag], TRUE, "")

asyncFrame == <<now, last, nreq, ticked, gens, gen, storedUserId, settings,
                tryOnHistory, popup, pageVars>>

\* handleMessage is called and runs to its first await
Receive(p) ==
    /\ procs[p].pc = "idle"
    /\ \E msg \in Messages :
        LET proc == [procs[p] EXCEPT !.action = msg.action]
        IN  CASE msg.action = "tryOn" ->
                   \* the key is computed, getFromCache awaits storage.get
                   /\ procs' = [procs EXCEPT ![p] =
                          [proc EXCEPT !.pc = "getFromCache",
                                       !.key = CacheKey(Destructure(msg.data, "userId"),
                                                        Get(msg.data, "productUrl"))]]
                   /\ UNCHANGED providerCalls
              [] msg.action = "createVideo" ->
                   \* fetch is called and awaited
                   /\ procs' = [procs EXCEPT ![p] =
                          [proc EXCEPT !.pc = "fetch", !.calls = 1]]
                   /\ providerCalls' = providerCalls + 1
              [] msg.action = "getUserData" ->
                   /\ procs' = [procs EXCEPT ![p] =
                          [proc EXCEPT !.pc = "getUserData"]]
                   /\ UNCHANGED providerCalls
              [] OTHER ->
                   /\ procs' = [procs EXCEPT ![p] =
                          Respond(proc, FALSE, "Unknown action")]
                   /\ UNCHANGED providerCalls
    /\ UNCHANGED <<cache, history>>
    /\ UNCHANGED asyncFrame

\* getFromCache: chrome.storage.local.get resolves or rejects; a rejection
\* is caught by handleMessage only
CacheRead(p) ==
    /\ procs[p].pc = "getFromCache"
    /\ \E storeOk \in BOOLEAN :
        LET proc == procs[p]
            cached == GetFromCache(cache, proc.key, now)
        IN  IF ~storeOk
            THEN /\ procs' = [procs EXCEPT ![p] =
                        Respond([proc EXCEPT !.storeFailed = TRUE], FALSE,
                                "storage error")]
                 /\ UNCHANGED providerCalls
            ELSE IF Truthy(cached)
            THEN /\ procs' = [procs EXCEPT ![p] =
                        Return([proc EXCEPT !.result = cached], cached, TRUE,
                               TRUE)]
                 /\ UNCHANGED providerCalls
            ELSE /\ procs' = [procs EXCEPT ![p] =
                        [proc EXCEPT !.pc = "fetch", !.calls = 1]]
                 /\ providerCalls' = providerCalls + 1
    /\ UNCHANGED <<cache, history>>
    /\ UNCHANGED asyncFrame

\* the service answers the fetch: the promise of fetch and of
\* response.json() settles
ProviderAnswers(p) ==
    /\ procs[p].pc = "fetch"
    /\ \E out \in Outcomes :
        LET proc == procs[p]
            response == Fetch(out, "service error")
        IN  procs' = [procs EXCEPT ![p] =
                IF response.threw # ""
                THEN Respond(proc, FALSE, response.threw)
                ELSE IF proc.action = "tryOn"
                THEN [proc EXCEPT !.pc = "saveToCache",
                                  !.result = response.result]
                ELSE IF response.result.isNull
                THEN Respond(proc, FALSE, "TypeError")
                ELSE [proc EXCEPT !.pc = "historyGet",
                                  !.result = response.result,
                                  !.entry = VideoEntry(
                                      Destructure(FullVideoData, "action"),
                                      response.result.url, now)]]
    /\ UNCHANGED <<cache, history, providerCalls>>
    /\ UNCHANGED asyncFrame

\* saveToCache of handleTryOn: chrome.storage.local.set resolves or rejects;
\* then the history entry is built
CacheWrite(p) ==
    /\ procs[p].pc = "saveToCache"
    /\ \E storeOk \in BOOLEAN :
        LET proc == procs[p]
        IN  IF ~storeOk
            THEN /\ procs' = [procs EXCEPT ![p] =
                        Respond(proc, FALSE, "storage error")]
                 /\ UNCHANGED cache
            ELSE /\ cache' = SaveToCache(cache, proc.key, proc.result,
                                         TryOnTtlMs, now)
                 /\ procs' = [procs EXCEPT ![p] =
                        IF proc.result.isNull
                        THEN Respond([proc EXCEPT !.saved = TRUE], FALSE,
                                     "TypeError")
                        ELSE [proc EXCEPT !.pc = "historyGet", !.saved = TRUE,
                                          !.entry = TryOnEntry(
                                              Get(FullTryOnData, "productUrl"),
                                              proc.result.url, now)]]
    /\ UNCHANGED <<history, providerCalls>>
    /\ UNCHANGED asyncFrame

\* updateUserHistory: const data = await chrome.storage.local.get(['history'])
HistoryRead(p) ==
    /\ procs[p].pc = "historyGet"
    /\ \E storeOk \in BOOLEAN :
           procs' = [procs EXCEPT ![p] =
               IF storeOk
               THEN [procs[p] EXCEPT !.pc = "historySet", !.local = history]
               ELSE Respond(procs[p], FALSE, "storage error")]
    /\ UNCHANGED <<cache, history, providerCalls>>
    /\ UNCHANGED asyncFrame

\* updateUserHistory: unshift and splice on the list read, then
\* await chrome.storage.local.set({ history }); the handler returns and
\* handleMessage sends the response
HistoryWrite(p) ==
    /\ procs[p].pc = "historySet"
    /\ \E storeOk \in BOOLEAN :
        LET proc == procs[p]
        IN  IF ~storeOk
            THEN /\ procs' = [procs EXCEPT ![p] =
                        Respond(proc, FALSE, "storage error")]
                 /\ UNCHANGED history
            ELSE /\ history' = UpdateUserHistory(proc.local, Undefined, proc.entry)
                 /\ procs' = [procs EXCEPT ![p] =
                        Return([proc EXCEPT !.logged = TRUE], proc.result,
                               proc.action = "tryOn", FALSE)]
    /\ UNCHANGED <<cache, providerCalls>>
    /\ UNCHANGED asyncFrame

\* getUserData: the storage read settles, the data is sent back
UserDataRead(p) ==
    /\ procs[p].pc = "getUserData"
    /\ \E storeOk \in BOOLEAN :
           procs' = [procs EXCEPT ![p] =
               IF storeOk
               THEN Respond([procs[p] EXCEPT !.local =
                        getUserData(StorageGet(history)).history], TRUE, "")
               ELSE Respond(procs[p], FALSE, "storage error")]
    /\ UNCHANGED <<cache, history, providerCalls>>
    /\ UNCHANGED asyncFrame

\* the steps the browser takes by itself once a handler awaits storage
StorageStep ==
    \E p \in Slots :
        \/ CacheRead(p)
        \/ CacheWrite(p)
        \/ HistoryRead(p)
        \/ HistoryWrite(p)
        \/ UserDataRead(p)

NextAsync ==
    \/ \E p \in Slots : Receive(p)
    \/ \E p \in Slots : ProviderAnswers(p)
    \/ StorageStep

\* storage promises always settle; nothing makes the service answer
SpecAsync == InitAsync /\ [][NextAsync]_vars /\ WF_vars(StorageStep)

-----------------------------------------------------------------------------
(* EnvLoader (env-loader.js): the .env file of the extension, fetched and  *)
(* parsed once                                                             *)

\* calls made on window.envLoader
MaxEnvCalls == 3

\* the service worker and the popup at rest, for the specifications of the
\* pages
ServiceIdle ==
    /\ cache = << >>
    /\ history = << >>
    /\ gens = << >>
    /\ now = 0
    /\ last = NoMessage
    /\ providerCalls = 0
    /\ nreq = 0
    /\ ticked = FALSE
    /\ gen = << >>
    /\ storedUserId = InstalledUserId
    /\ settings = DefaultSettings
    /\ tryOnHistory = << >>
    /\ popup = NoTryOn
    /\ procs = NoProcs

serviceVars == <<cache, history, now, last, providerCalls, nreq, ticked, gens,
                 gen, storedUserId, settings, tryOnHistory, popup, procs>>

\* a line of the file, trimmed: empty, a comment, KEY=value with the value
\* bare or in quotes, or a line without '='
Blank == [kind |-> "blank", key |-> "", quote |-> "", text |-> ""]
Comment == [kind |-> "comment", key |-> "", quote |-> "", text |-> ""]
NoEquals == [kind |-> "other", key |-> "", quote |-> "", text |-> ""]
KeyValue(key, quote, text) ==
    [kind |-> "kv", key |-> key, quote |-> quote, text |-> text]

\* the files of the model
EnvContents ==
    {<< >>,
     <<Comment, KeyValue("GEMINI_API_KEY", "\"", "k1")>>,
     <<KeyValue("GEMINI_API_KEY", "", "k1"), Blank,
       KeyValue("GEMINI_API_KEY", "'", "k2")>>,
     <<KeyValue("MODEL", "", "m"), NoEquals>>,
     <<KeyValue("GEMINI_API_KEY", "", "")>>}

\* parseEnvContent: comments, empty lines and lines without '=' are
\* skipped, quotes around a value removed, a later line replaces an earlier
\* one of the same key
RECURSIVE ParseLines(_, _)
ParseLines(lines, parsed) ==
    IF lines = << >> THEN parsed
    ELSE LET line == Head(lines)
         IN  ParseLines(Tail(lines),
                        IF line.kind = "kv"
                        THEN (line.key :> line.text) @@ parsed
                        ELSE parsed)

parseEnvContent(content) == ParseLines(content, << >>)

\* fetch(chrome.runtime.getURL('../../../.env')) and response.text(): either
\* promise rejects, or the text of the file comes back
EnvFetches ==
    {[kind |-> "fetch_rejects", content |-> << >>],
     [kind |-> "text_rejects", content |-> << >>]}
        \cup {[kind |-> "text", content |-> c] : c \in EnvContents}

\* a loadEnv that marks the loader as loaded after a failed fetch as well
loadEnvAlwaysLoaded(loader, out) ==
    IF loader.loaded
    THEN [loader EXCEPT !.last.fetched = FALSE, !.last.fetchFailed = FALSE,
                        !.last.returned = loader.envVars]
    ELSE IF out.kind # "text"
    THEN [loader EXCEPT !.fetches = @ + 1, !.loaded = TRUE,
                        !.last.fetched = TRUE, !.last.fetchFailed = TRUE,
                        !.last.returned = loader.envVars]
    ELSE [loader EXCEPT !.fetches = @ + 1,
                        !.envVars = parseEnvContent(out.content),
                        !.source = out.content,
                        !.loaded = TRUE,
                        !.last.fetched = TRUE, !.last.fetchFailed = FALSE,
                        !.last.returned = parseEnvContent(out.content)]

\* loadEnv, the fetch (when one is made) ending as out
loadEnv(loader, out) ==
    IF loader.loaded
    THEN [loader EXCEPT !.last.fetched = FALSE, !.last.fetchFailed = FALSE,
                        !.last.returned = loader.envVars]
    ELSE IF out.kind # "text"
    THEN \* caught: loaded and envVars stay
         [loader EXCEPT !.fetches = @ + 1,
                        !.last.fetched = TRUE, !.last.fetchFailed = TRUE,
                        !.last.returned = loader.envVars]
    ELSE [loader EXCEPT !.fetches = @ + 1,
                        !.envVars = parseEnvContent(out.content),
                        !.source = out.content,
                        !.loaded = TRUE,
                        !.last.fetched = TRUE, !.last.fetchFailed = FALSE,
                        !.last.returned = parseEnvContent(out.content)]

\* this.envVars[key]
EnvVar(envVars, key) ==
    IF key \in DOMAIN envVars THEN envVars[key] ELSE Undefined

\* get(key)
get(loader, key, out) ==
    LET loaded == loadEnv(loader, out)
    IN  [loaded EXCEPT !.last.value = EnvVar(loaded.envVars, key),
                       !.last.threw = FALSE]

\* getGeminiApiKey(): throws when the key is absent or empty
getGeminiApiKey(loader, out) ==
    LET loaded == loadEnv(loader, out)
        apiKey == EnvVar(loaded.envVars, "GEMINI_API_KEY")
    IN  [loaded EXCEPT !.last.value = apiKey,
                       !.last.threw = apiKey \in {Undefined, ""}]

\* the loader after one more call, op(key), has completed
EnvCalled(op, key, loader) ==
    [loader EXCEPT !.calls = @ + 1, !.last.op = op, !.last.key = key]

LoadEnvCall ==
    /\ envLoader.calls < MaxEnvCalls
    /\ \E out \in EnvFetches :
          envLoader' =
              EnvCalled("loadEnv", "",
                        [loadEnv(envLoader, out)
                            EXCEPT !.last.value = Undefined,
                                   !.last.threw = FALSE])
    /\ UNCHANGED <<serviceVars, gemini, standalone, atelier>>

GetCall ==
    /\ envLoader.calls < MaxEnvCalls
    /\ \E out \in EnvFetches, key \in {"GEMINI_API_KEY", "MODEL"} :
          envLoader' = EnvCalled("get", key, get(envLoader, key, out))
    /\ UNCHANGED <<serviceVars, gemini, standalone, atelier>>

GetGeminiApiKeyCall ==
    /\ envLoader.calls < MaxEnvCalls
    /\ \E out \in EnvFetches :
          envLoader' = EnvCalled("getGeminiApiKey", "GEMINI_API_KEY",
                                getGeminiApiKey(envLoader, out))
    /\ UNCHANGED <<serviceVars, gemini, standalone, atelier>>

InitEnv == ServiceIdle /\ PagesFresh

NextEnv == LoadEnvCall \/ GetCall \/ GetGeminiApiKeyCall

SpecEnv == InitEnv /\ [][NextEnv]_vars

-----------------------------------------------------------------------------
(* VTONGemini (vton_gemini.js): the try-on of the popup, made by the       *)
(* Gemini endpoint                                                         *)

\* calls of tryOn on one instance
MaxGeminiCalls == 2

\* a part of the content of a candidate: text, inline_data.data (both ""
\* when absent or empty) and the inlineData of the camel-case spelling
Part(text, data, camel) == [text |-> text, data |-> data, camel |-> camel]

\* the answers of the endpoint: the fetch rejecting, a status that is not
\* ok, a body that is not JSON, and JSON bodies: null, no candidates, a
\* candidate without content, content without parts, content with parts
GeminiAnswers ==
    {[kind |-> k, parts |-> << >>] :
        k \in {"rejects", "not_ok", "bad_json", "null", "no_candidates",
               "no_content", "no_parts"}}
        \cup {[kind |-> "parts", parts |-> ps] :
                ps \in {<< >>,
                        <<Part("t", "", "")>>,
                        <<Part("", "d1", "")>>,
                        <<Part("t", "", ""), Part("", "d1", "")>>,
                        <<Part("", "", "")>>,
                        <<Part("t", "d1", "")>>,
                        <<Part("", "", "d1")>>}}

\* personDataUrl: missing, or a data URL
Persons == {Undefined, "data:person"}

\* garmentUrl: missing, a data URL, or a URL to fetch
Garments == {Undefined, "data:garment", "https:garment"}

\* fetch(garmentUrl), response.blob() and the FileReader of blobToBase64,
\* which has no onerror: a read error leaves its promise pending
GarmentFetches == {"fetch_rejects", "blob_rejects", "read", "reader_error"}

\* init(): the key of the instance, or the one of window.envLoader
init(g, loader, envOut) ==
    IF g.apiKey = Undefined /\ g.hasEnvLoader
    THEN LET asked == getGeminiApiKey(loader, envOut)
         IN  IF asked.last.threw
             THEN [apiKey |-> g.apiKey, threw |-> TRUE, loader |-> asked,
                   message |-> "Gemini API key not configured"]
             ELSE [apiKey |-> asked.last.value, threw |-> FALSE,
                   loader |-> asked, message |-> ""]
    ELSE IF g.apiKey = Undefined
    THEN [apiKey |-> g.apiKey, threw |-> TRUE, loader |-> loader,
          message |-> "Gemini API key is required"]
    ELSE [apiKey |-> g.apiKey, threw |-> FALSE, loader |-> loader,
          message |-> ""]

\* what the body of the try block comes to
Thrown(failure, message, hadKey, garmentFetches, endpointCalls) ==
    [settled |-> "thrown", success |-> FALSE, imageData |-> "",
     error |-> message, endpointCalls |-> endpointCalls,
     garmentFetches |-> garmentFetches, hadKey |-> hadKey,
     failure |-> failure]

ImageReturned(imageData, garmentFetches) ==
    [settled |-> "resolved", success |-> TRUE, imageData |-> imageData,
     error |-> "", endpointCalls |-> 1, garmentFetches |-> garmentFetches,
     hadKey |-> TRUE, failure |-> "none"]

Pending(garmentFetches) ==
    [settled |-> "pending", success |-> FALSE, imageData |-> "",
     error |-> "", endpointCalls |-> 0, garmentFetches |-> garmentFetches,
     hadKey |-> TRUE, failure |-> "reader_error"]

\* the loop over the parts: a part with text is logged, the first other
\* part with inline_data.data is returned
RECURSIVE FindImage(_)
FindImage(parts) ==
    IF parts = << >> THEN ""
    ELSE IF Head(parts).text # "" THEN FindImage(Tail(parts))
    ELSE IF Head(parts).data # "" THEN "data:mime;base64," \o Head(parts).data
    ELSE FindImage(Tail(parts))

\* the call of the endpoint and the reading of its answer
CallEndpoint(answer, fetches) ==
    CASE answer.kind = "rejects" ->
            Thrown("network", "Failed to fetch", TRUE, fetches, 1)
      [] answer.kind = "not_ok" ->
            Thrown("not_ok", "API error", TRUE, fetches, 1)
      [] answer.kind = "bad_json" ->
            Thrown("bad_json", "SyntaxError", TRUE, fetches, 1)
      [] answer.kind = "null" ->
            Thrown("no_content", "TypeError", TRUE, fetches, 1)
      [] answer.kind \in {"no_candidates", "no_content"} ->
            Thrown("no_content", "No content returned from Gemini", TRUE,
                   fetches, 1)
      [] answer.kind = "no_parts" ->
            Thrown("no_image", "TypeError", TRUE, fetches, 1)
      [] OTHER ->
            IF FindImage(answer.parts) = ""
            THEN Thrown("no_image", "No image generated", TRUE, fetches, 1)
            ELSE ImageReturned(FindImage(answer.parts), fetches)

\* the try block of tryOn after init() has returned
TryBlock(person, garment, garmentOut, answer) ==
    IF person = Undefined
    THEN Thrown("bad_input", "TypeError", TRUE, 0, 0)
    ELSE IF garment = Undefined
    THEN Thrown("bad_input", "TypeError", TRUE, 0, 0)
    ELSE IF garment = "data:garment"
    THEN CallEndpoint(answer, 0)
    ELSE CASE garmentOut = "fetch_rejects" ->
                 Thrown("garment_fetch", "Failed to fetch", TRUE, 1, 0)
           [] garmentOut = "blob_rejects" ->
                 Thrown("garment_fetch", "TypeError", TRUE, 1, 0)
           [] garmentOut = "reader_error" -> Pending(1)
           [] OTHER -> CallEndpoint(answer, 1)

\* a tryOn without its catch: what is thrown rejects the promise
Rethrow(outcome) ==
    IF outcome.settled = "thrown"
    THEN [outcome EXCEPT !.settled = "rejected"]
    ELSE outcome

\* the catch of tryOn: return { success: false, error: error.message }
CatchError(outcome) ==
    IF outcome.settled = "thrown"
    THEN [outcome EXCEPT !.settled = "resolved", !.success = FALSE]
    ELSE outcome

\* tryOn(personDataUrl, garmentUrl)
tryOn(g, loader, envOut, person, garment, garmentOut, answer) ==
    LET key == init(g, loader, envOut)
    IN  [apiKey |-> key.apiKey,
         loader |-> key.loader,
         result |-> CatchError(
                        IF key.threw
                        THEN Thrown("no_key", key.message, FALSE, 0, 0)
                        ELSE TryBlock(person, garment, garmentOut, answer))]

GeminiTryOn ==
    /\ gemini.count < MaxGeminiCalls
    /\ \E envOut \in EnvFetches, person \in Persons, garment \in Garments,
          garmentOut \in GarmentFetches, answer \in GeminiAnswers :
          LET done == tryOn(gemini, envLoader, envOut, person, garment,
                            garmentOut, answer)
          IN  /\ gemini' = [gemini EXCEPT !.apiKey = done.apiKey,
                                          !.count = @ + 1,
                                          !.last = done.result]
              /\ envLoader' = done.loader
    /\ UNCHANGED <<serviceVars, standalone, atelier>>

\* new VTONGemini(apiKey), on a page with or without window.envLoader
InitGemini ==
    /\ ServiceIdle
    /\ envLoader = NewEnvLoader
    /\ standalone = NotStarted
    /\ atelier = Collapsed
    /\ \E apiKey \in {Undefined, "k0"}, hasEnvLoader \in BOOLEAN :
          gemini = [NoGemini EXCEPT !.apiKey = apiKey,
                                    !.hasEnvLoader = hasEnvLoader]

NextGemini == GeminiTryOn

SpecGemini == InitGemini /\ [][NextGemini]_vars

-----------------------------------------------------------------------------
(* standalone_vton.js: node standalone_vton.js --all                       *)

\* images found in the directory
MaxImages == 3

\* one combination: readFileSync of the two images, generateContent, the
\* search of an image part, and saveImage
PairOutcomes == {"ok", "read_fail", "api_fail", "no_image", "save_fail"}

\* performTryOns up to the loop: fewer than two images throw
StartAll ==
    /\ standalone.pc = "idle"
    /\ standalone' =
          IF standalone.n < 2
          THEN [standalone EXCEPT !.pc = "threw",
                                  !.lastError = "Need at least 2 images"]
          ELSE [standalone EXCEPT !.pc = "loop", !.i = 0, !.j = 0,
                                  !.processed = 0]
    /\ UNCHANGED <<serviceVars, envLoader, gemini, atelier>>

\* an iteration that gives up the whole run at the first failure
AttemptStopping ==
    /\ standalone.pc = "loop"
    /\ standalone.i < standalone.n /\ standalone.j < standalone.n
    /\ standalone.i # standalone.j
    /\ \E outcome \in PairOutcomes :
          standalone' =
              [standalone EXCEPT
                  !.attempts = Append(@, [person |-> standalone.i,
                                          garment |-> standalone.j,
                                          ok |-> outcome = "ok"]),
                  !.processed = IF outcome = "ok" THEN @ + 1 ELSE @,
                  !.lastError = IF outcome = "ok" THEN @ ELSE outcome,
                  !.pc = IF outcome = "ok" THEN @ ELSE "done",
                  !.j = @ + 1]
    /\ UNCHANGED <<serviceVars, envLoader, gemini, atelier>>

\* an iteration of the inner loop with i !== j: callGeminiAPI, saveImage,
\* processed++, any throw caught and logged; then j++
Attempt ==
    /\ standalone.pc = "loop"
    /\ standalone.i < standalone.n /\ standalone.j < standalone.n
    /\ standalone.i # standalone.j
    /\ \E outcome \in PairOutcomes :
          standalone' =
              [standalone EXCEPT
                  !.attempts = Append(@, [person |-> standalone.i,
                                          garment |-> standalone.j,
                                          ok |-> outcome = "ok"]),
                  !.processed = IF outcome = "ok" THEN @ + 1 ELSE @,
                  !.lastError = IF outcome = "ok" THEN @ ELSE outcome,
                  !.j = @ + 1]
    /\ UNCHANGED <<serviceVars, envLoader, gemini, atelier>>

\* an iteration of the inner loop with i === j
SkipSame ==
    /\ standalone.pc = "loop"
    /\ standalone.i < standalone.n /\ standalone.j < standalone.n
    /\ standalone.i = standalone.j
    /\ standalone' = [standalone EXCEPT !.j = @ + 1]
    /\ UNCHANGED <<serviceVars, envLoader, gemini, atelier>>

\* the inner loop ends: i++, j = 0
NextPerson ==
    /\ standalone.pc = "loop"
    /\ standalone.i < standalone.n /\ standalone.j = standalone.n
    /\ standalone' = [standalone EXCEPT !.i = @ + 1, !.j = 0]
    /\ UNCHANGED <<serviceVars, envLoader, gemini, atelier>>

\* the outer loop ends: 'Finished! Processed ...'
FinishAll ==
    /\ standalone.pc = "loop"
    /\ standalone.i = standalone.n
    /\ standalone' = [standalone EXCEPT !.pc = "done"]
    /\ UNCHANGED <<serviceVars, envLoader, gemini, atelier>>

\* findImages() has found n images
InitStandalone ==
    /\ ServiceIdle
    /\ envLoader = NewEnvLoader
    /\ gemini = NoGemini
    /\ atelier = Collapsed
    /\ \E n \in 0..MaxImages : standalone = [NotStarted EXCEPT !.n = n]

NextStandalone ==
    StartAll \/ Attempt \/ SkipSame \/ NextPerson \/ FinishAll

\* one process runs the loop, and each call of the SDK is taken to settle
SpecStandalone ==
    InitStandalone /\ [][NextStandalone]_vars /\ WF_vars(NextStandalone)

-----------------------------------------------------------------------------
(* The Atelier console of the page (content-injector.js,                   *)
(* setupConsoleEventListeners): classes of the root element, document      *)
(* listeners, and the callbacks waiting to run                             *)

\* events of the user on one page
MaxConsoleEvents == 4

\* openPassport
openPassport(a) ==
    IF a.passportOpen THEN a
    ELSE [a EXCEPT !.passportOpen = TRUE, !.panelVisible = TRUE]

\* closePassport
closePassport(a) ==
    IF ~a.passportOpen THEN a
    ELSE [a EXCEPT !.passportOpen = FALSE, !.panelVisible = FALSE]

\* openConsole: 'expanded' now, 'visible' at the next animation frame, the
\* keydown listener now and the click listener from a setTimeout of 0
openConsole(a) ==
    IF a.expanded THEN a
    ELSE [a EXCEPT !.expanded = TRUE,
                   !.due = @ \o <<"raf", "addClick">>,
                   !.keydown = TRUE]

\* closeConsole: 'visible' removed now, 'expanded' by a timer of 400 ms,
\* the passport closed, both listeners removed
closeConsole(a) ==
    IF ~a.expanded THEN a
    ELSE [closePassport([a EXCEPT !.visible = FALSE,
                                  !.due = Append(@, "collapse")])
             EXCEPT !.keydown = FALSE, !.clickOutside = FALSE]

\* handleKeyDown with e.key === 'Escape'
handleKeyDown(a) == closePassport(closeConsole(a))

\* handleClickOutside for a click outside the root and the passport panel
\* ("outside") or inside the root but not in the passport panel nor on its
\* button ("panel")
handleClickOutside(a, target) ==
    IF a.expanded /\ target = "outside" THEN closeConsole(a)
    ELSE IF a.passportOpen THEN closePassport(a)
    ELSE a

\* the console after one more event of the user, its listener having run
UserEvent(name, a) == [a EXCEPT !.events = @ + 1, !.lastEvent = name]

\* click on the locket
LocketClick ==
    /\ atelier.events < MaxConsoleEvents
    /\ atelier' = UserEvent("locket",
                            IF atelier.visible THEN closeConsole(atelier)
                            ELSE openConsole(atelier))
    /\ UNCHANGED <<serviceVars, envLoader, gemini, standalone>>

\* click on the close button of the panel header, the panel being laid
\* out while the root is expanded
CloseBtnClick ==
    /\ atelier.events < MaxConsoleEvents
    /\ atelier.expanded
    /\ atelier' = UserEvent("close", closeConsole(atelier))
    /\ UNCHANGED <<serviceVars, envLoader, gemini, standalone>>

\* click on the passport button of the panel header
PassportBtnClick ==
    /\ atelier.events < MaxConsoleEvents
    /\ atelier.expanded
    /\ atelier' = UserEvent("passport",
                            IF atelier.passportOpen
                            THEN closePassport(atelier)
                            ELSE openPassport(atelier))
    /\ UNCHANGED <<serviceVars, envLoader, gemini, standalone>>

\* Escape, while the keydown listener is on the document
Escape ==
    /\ atelier.events < MaxConsoleEvents
    /\ atelier.keydown
    /\ atelier' = UserEvent("escape", handleKeyDown(atelier))
    /\ UNCHANGED <<serviceVars, envLoader, gemini, standalone>>

\* a click that reaches the document, while the click listener is on it
DocumentClick ==
    /\ atelier.events < MaxConsoleEvents
    /\ atelier.clickOutside
    /\ \E target \in {"outside", "panel"} :
          /\ target = "panel" => atelier.expanded
          /\ atelier' = UserEvent(target,
                                  handleClickOutside(atelier, target))
    /\ UNCHANGED <<serviceVars, envLoader, gemini, standalone>>

\* the waiting callbacks without the k-th
RemoveAt(seq, k) ==
    [m \in 1..(Len(seq) - 1) |-> IF m < k THEN seq[m] ELSE seq[m + 1]]

\* the k-th waiting callback may run: callbacks of one kind run in the
\* order they were asked for, and the timer of 400 ms runs after every
\* callback asked for before it
MayRun(k, kind) ==
    /\ k \in 1..Len(atelier.due)
    /\ atelier.due[k] = kind
    /\ \A m \in 1..(k - 1) : atelier.due[m] # kind
    /\ kind = "collapse" => k = 1

\* requestAnimationFrame(() => root.classList.add('visible'))
AnimationFrame ==
    /\ \E k \in 1..Len(atelier.due) :
          /\ MayRun(k, "raf")
          /\ atelier' = [atelier EXCEPT !.visible = TRUE,
                                        !.due = RemoveAt(@, k)]
    /\ UNCHANGED <<serviceVars, envLoader, gemini, standalone>>

\* setTimeout(() => document.addEventListener('click', ...), 0)
ClickListenerTimer ==
    /\ \E k \in 1..Len(atelier.due) :
          /\ MayRun(k, "addClick")
          /\ atelier' = [atelier EXCEPT !.clickOutside = TRUE,
                                        !.due = RemoveAt(@, k)]
    /\ UNCHANGED <<serviceVars, envLoader, gemini, standalone>>

\* setTimeout(() => root.classList.remove('expanded'), 400)
CloseTimer ==
    /\ \E k \in 1..Len(atelier.due) :
          /\ MayRun(k, "collapse")
          /\ atelier' = [atelier EXCEPT !.expanded = FALSE,
                                        !.due = RemoveAt(@, k)]
    /\ UNCHANGED <<serviceVars, envLoader, gemini, standalone>>

InitAtelier == ServiceIdle /\ PagesFresh

NextAtelier ==
    \/ LocketClick
    \/ CloseBtnClick
    \/ PassportBtnClick
    \/ Escape
    \/ DocumentClick
    \/ AnimationFrame
    \/ ClickListenerTimer
    \/ CloseTimer

SpecAtelier == InitAtelier /\ [][NextAtelier]_vars

-----------------------------------------------------------------------------
(* Reading the last message *)

HasProp(props, f) == \E p \in props : p[1] = f

PropOf(props, f) == (CHOOSE p \in props : p[1] = f)[2]

PropOr(props, f, d) == IF HasProp(props, f) THEN PropOf(props, f) ELSE d

\* the last message was a tryOn answered from the cache
LastWasHit ==
    last.action = "tryOn" /\ last.resp.success /\ last.resp.cache_hit

\* the last message was a tryOn that found an entry under its key
LastFoundEntry ==
    last.action = "tryOn" /\ last.key \in DOMAIN last.cacheBefore

\* the last message was a tryOn whose request had been generated for less
\* than the time-to-live before
LastWithinTtl ==
    /\ last.action = "tryOn"
    /\ last.prior.known
    /\ last.time < last.prior.time + 24 * 60 * 60 * 1000

-----------------------------------------------------------------------------
(* C1: a tryOn request whose identical earlier request was answered by the *)
(* provider and cached less than 24 h before is answered with cache_hit =  *)
(* true and the image_url of that first response, without a provider call  *)
C1_CacheHit ==
    LastWithinTtl =>
        /\ last.resp.success
        /\ last.resp.hasCacheHit /\ last.resp.cache_hit
        /\ last.resp.url = last.prior.url
        /\ last.calls = 0
        /\ cache = last.cacheBefore

\* the repeat comes one millisecond before the entry expires
C1_Witness ==
    /\ LastWithinTtl
    /\ last.time = last.prior.time + 24 * 60 * 60 * 1000 - 1
    /\ last.resp.cache_hit
    /\ providerCalls = 1

(* C2: a tryOn request that finds the entry of its key expired (now >=     *)
(* expiry, equality included) is a miss, makes exactly one provider call   *)
(* and, when it succeeds, leaves under the key the new result with expiry  *)
(* = time of the write + 24 h                                              *)
C2_Expiry ==
    (LastFoundEntry /\ last.time >= last.cacheBefore[last.key].expiry) =>
        /\ last.calls = 1
        /\ ~last.resp.cache_hit
        /\ last.resp.success =>
               /\ last.resp.hasCacheHit
               /\ cache[last.key].data = [isNull |-> FALSE, url |-> last.resp.url]
               /\ cache[last.key].expiry = last.time + 24 * 60 * 60 * 1000
               /\ \A k \in DOMAIN last.cacheBefore :
                      k # last.key => cache[k] = last.cacheBefore[k]

\* the request comes exactly at the expiry time and a new artifact replaces
\* the old one
C2_Witness ==
    /\ LastFoundEntry
    /\ last.time = last.cacheBefore[last.key].expiry
    /\ last.resp.success
    /\ ~last.cacheBefore[last.key].data.isNull
    /\ cache[last.key].data # last.cacheBefore[last.key].data

(* C3: the stored history never holds more than 20 entries                 *)
C3_HistoryBound == Len(history) <= 20

\* a tryOn and a createVideo were both logged and an old entry was dropped
C3_Witness ==
    /\ Len(history) = 20
    /\ Len(gens) > 20
    /\ history[1].type # history[2].type

(* C4: the stored history is the last min(n, 20) of the n entries logged,  *)
(* newest first: the newest at the head, the n - 20 oldest dropped         *)
C4_HistoryOrder ==
    history = SubSeq(gens, 1, IF Len(gens) < 20 THEN Len(gens) ELSE 20)

\* 21 entries logged: the last one is at the head, the oldest one is gone
C4_Witness ==
    /\ Len(gens) = 21
    /\ last.resp.success /\ last.calls = 1
    /\ history[1].timestamp = last.time
    /\ history[20] = gens[20]
    /\ gens[21] \notin {history[i] : i \in 1..Len(history)}

(* C5: a handler whose provider call fails (network error, non-ok status,  *)
(* unparseable body) changes neither cache nor history and answers with    *)
(* an error; the next identical request calls the provider again           *)
C5_FailureClean ==
    [][nreq' = nreq + 1 =>
        /\ last'.kind \in FailureKinds =>
               /\ cache' = cache
               /\ history' = history
               /\ ~last'.resp.success /\ last'.resp.error # ""
        /\ (/\ last.kind \in FailureKinds
            /\ last'.action = last.action
            /\ last'.req = last.req) =>
               /\ last'.calls = 1
               /\ providerCalls' = providerCalls + 1]_vars

\* the refresh of an expired entry failed, and the entry is still there
C5_Witness ==
    /\ last.action = "tryOn"
    /\ last.kind \in FailureKinds
    /\ last.key \in DOMAIN cache
    /\ ~cache[last.key].data.isNull

LastIsInvalid ==
    \/ /\ last.action = "createVideo"
       /\ \/ ~HasProp(last.req, "userId")
          \/ ~HasProp(last.req, "imageUrl")
          \/ PropOr(last.req, "duration", 4) \notin 3..6
          \/ PropOr(last.req, "aspect", "9:16") # "9:16"
    \/ /\ last.action = "tryOn"
       /\ \/ ~HasProp(last.req, "userId")
          \/ ~HasProp(last.req, "selfieUrl")
          \/ ~HasProp(last.req, "productUrl")

(* C7: a request with a missing or out-of-range parameter is rejected      *)
(* before any provider call and leaves cache and history unchanged         *)
C7_ValidationFirst ==
    LastIsInvalid =>
        /\ last.calls = 0
        /\ ~last.resp.success
        /\ cache = last.cacheBefore
        /\ history = last.historyBefore

(* C8: two tryOn requests with the same properties, in whatever order,     *)
(* handled at different times and over different stored states, get the   *)
(* same cache key                                                          *)
C8_KeyDeterminism ==
    [][(/\ nreq' = nreq + 1
        /\ last.key # NoKey /\ last'.key # NoKey
        /\ last'.req = last.req) => last'.key = last.key]_vars

\* the same request again, later, the first one having filled the cache
C8_Witness ==
    /\ last.action = "tryOn" /\ last.key # NoKey
    /\ last.prior.known
    /\ last.time > last.prior.time
    /\ last.cacheBefore # << >>

(* C9: a cached artifact is only returned for a request equal, in user id, *)
(* selfie, product URL and product image, to the request that generated it *)
C9_HitOnlyForSameRequest ==
    LastWasHit =>
        /\ LastWithinTtl
        /\ last.resp.url = last.prior.url

(* C10: one handler invocation makes at most one provider call, and a      *)
(* failed call is not made again                                           *)
C10_AtMostOneCall ==
    /\ last.calls <= 1
    /\ last.kind \in FailureKinds => last.calls = 1
    /\ providerCalls <= nreq

\* a createVideo whose only call came back with a non-ok status
C10_Witness ==
    /\ last.action = "createVideo"
    /\ last.kind = "http_error"
    /\ last.calls = 1
    /\ providerCalls = 1

\* the data of a cache entry is an artifact a provider call produced
IsArtifactEntry(e) == ~e.data.isNull /\ e.data.url \in Artifacts

(* C11: a successful tryOn response carries the data of a cache entry that *)
(* was unexpired when read or the result of a provider call that succeeded *)
(* in this request, and no failed or partial provider result is returned   *)
(* as a success or stored in the cache                                     *)
C11_OnlyVerifiedResults ==
    /\ (last.action = "tryOn" /\ last.resp.success) =>
           \/ /\ last.resp.cache_hit
              /\ LastFoundEntry
              /\ last.cacheBefore[last.key].expiry > last.time
              /\ last.cacheBefore[last.key].data.url = last.resp.url
           \/ /\ ~last.resp.cache_hit
              /\ last.calls = 1 /\ last.kind = "json"
              /\ last.resp.url \in Artifacts
    /\ \A k \in DOMAIN cache : IsArtifactEntry(cache[k])

(* C12: history is per user: a successful generation for a user leaves the *)
(* history read back for any other user unchanged, the user whose id the   *)
(* extension stored included                                               *)
C12_PerUserHistory ==
    (/\ last.action \in {"tryOn", "createVideo"}
     /\ last.resp.success /\ last.calls = 1
     /\ HasProp(last.req, "userId")
     /\ PropOf(last.req, "userId") # storedUserId) =>
        getUserData(StorageGet(history)).history
            = getUserData(StorageGet(last.historyBefore)).history

(* C16: getUserData changes no stored key (history, settings, userId and   *)
(* cache entries stay as they were) and makes no provider call; it answers *)
(* with the stored history, newest entry first, and with an empty list,    *)
(* not an error, when no history has been stored                           *)
C16_PureRead ==
    [][(nreq' = nreq + 1 /\ last'.action = "getUserData") =>
        /\ cache' = cache /\ history' = history
        /\ settings' = settings /\ storedUserId' = storedUserId
        /\ providerCalls' = providerCalls
        /\ last'.resp.success
        /\ last'.userData.historyIsList
        /\ last'.userData.history = history
        /\ last'.userData.history = SubSeq(gens, 1, Min(Len(gens), 20))
        /\ last'.userData.userId = storedUserId
        /\ Len(gens) = 0 => last'.userData.history = << >>]_vars

\* the history is read after a tryOn was logged on top of 19 older entries
C16_Witness ==
    /\ last.action = "getUserData"
    /\ last.resp.success
    /\ Len(last.userData.history) = 20
    /\ last.userData.history[1].type = "tryon"
    /\ last.userData.history[1].timestamp > last.userData.history[2].timestamp

(* C13: when the storage read of getFromCache fails, handleTryOn goes on   *)
(* as on a cache miss: it calls the provider, and the request does not     *)
(* fail because of the store                                               *)
C13_StoreFailureIsMiss ==
    \A p \in Slots :
        procs[p].storeFailed =>
            /\ procs[p].calls = 1
            /\ procs[p].error # "storage error"

(* C14: a tryOn or createVideo request whose provider call is under way is *)
(* answered in the end, with a success or a failure, whether the provider  *)
(* answers or not                                                          *)
C14_BoundedByTimeout ==
    \A p \in Slots :
        (procs[p].pc = "fetch") ~> (procs[p].pc = "done" /\ procs[p].responses = 1)

(* C15: a createVideo request with the same user id, image, action,        *)
(* duration and aspect as the successful createVideo just before it, less  *)
(* than the documented time-to-live of one hour later, makes no provider   *)
(* call and is answered with the same video reference                      *)
C15_VideoServedFromCache ==
    [][(/\ nreq' = nreq + 1
        /\ last.action = "createVideo" /\ last.resp.success
        /\ last'.action = "createVideo"
        /\ last'.req = last.req
        /\ last'.time < last.time + 60 * 60 * 1000) =>
           /\ last'.calls = 0
           /\ providerCalls' = providerCalls
           /\ last'.resp.success
           /\ last'.resp.url = last.resp.url]_vars

(* C19: while settings.cacheResults is false, handleTryOn calls the        *)
(* provider for every request it has a key for, serves nothing from the    *)
(* cache and writes no cache entry                                         *)
C19_SettingHonoured ==
    [][(/\ nreq' = nreq + 1
        /\ last'.action = "tryOn" /\ last'.key # NoKey
        /\ ~settings.cacheResults) =>
           /\ last'.calls = 1
           /\ ~last'.resp.cache_hit
           /\ cache' = cache]_vars

(* C17: every message given to handleMessage gets exactly one response,    *)
(* with success true when its handler completed and success false with an  *)
(* error when it threw or the action is unknown; an unknown action makes   *)
(* no provider call                                                        *)
C17_ExactlyOneResponse ==
    /\ [](\A p \in Slots :
             /\ procs[p].responses <= 1
             /\ procs[p].pc = "done" =>
                    /\ procs[p].responses = 1
                    /\ procs[p].success <=> procs[p].error = ""
             /\ procs[p].action = "ping" =>
                    /\ procs[p].calls = 0
                    /\ ~procs[p].success /\ procs[p].error = "Unknown action")
    /\ \A p \in Slots :
           (procs[p].pc # "idle") ~> (procs[p].responses = 1)

(* C18: the popup's tryOnHistory never holds more than 20 entries, its     *)
(* newest entry is first, and a try-on that failed leaves it unchanged     *)
C18_PopupHistoryBound ==
    /\ Len(tryOnHistory) <= 20
    /\ \A i \in 1..Len(tryOnHistory) : \A j \in i..Len(tryOnHistory) :
           tryOnHistory[i].timestamp >= tryOnHistory[j].timestamp
    /\ (popup.count > 0 /\ ~popup.saved) => tryOnHistory = popup.before

(* C20: once the handlers of k successful generations have all completed,  *)
(* in whatever interleaving of their storage reads and writes, the history *)
(* holds all k entries                                                     *)
C20_NoLostUpdate ==
    (\A p \in Slots : procs[p].pc \in {"idle", "done"}) =>
        Len(history) = Cardinality({p \in Slots : procs[p].logged})

\* both slots hold a tryOn that missed the cache, called the provider and
\* completed
BothMissed ==
    \A p \in {1, 2} :
        /\ procs[p].action = "tryOn" /\ procs[p].pc = "done"
        /\ procs[p].success /\ procs[p].calls = 1

(* C21: tryOn requests for one key that all read the cache before any of   *)
(* them wrote it all call the provider; each saveToCache that executes     *)
(* leaves its own result under the key, so the entry that remains is the   *)
(* one written last, nothing else changes the cache, and each request      *)
(* returns its own provider result with cache_hit = false                  *)
C21_ConcurrentMisses ==
    /\ [][\A p \in Slots :
             /\ (procs[p].pc = "getFromCache" /\ procs'[p].pc = "fetch") =>
                    providerCalls' = providerCalls + 1
             /\ (~procs[p].saved /\ procs'[p].saved) =>
                    /\ procs[p].key \in DOMAIN cache'
                    /\ cache'[procs[p].key] =
                           [data |-> procs[p].result,
                            expiry |-> now + 24 * 60 * 60 * 1000]]_vars
    /\ [][cache' # cache =>
             \E p \in Slots : ~procs[p].saved /\ procs'[p].saved]_vars
    /\ [](\A p \in Slots :
             (/\ procs[p].action = "tryOn" /\ procs[p].pc = "done"
              /\ procs[p].success /\ procs[p].calls = 1) =>
                 /\ procs[p].url = procs[p].result.url
                 /\ procs[p].url \in Artifacts
                 /\ procs[p].hasCacheHit /\ ~procs[p].cache_hit
                 /\ procs[p].saved)

\* two concurrent misses got different artifacts; the one of slot 2, whose
\* response is not the first artifact, is what the cache holds
C21_Witness ==
    /\ BothMissed
    /\ providerCalls = 2
    /\ procs[1].url = "a1" /\ procs[2].url = "a2"
    /\ cache[procs[1].key].data.url = "a2"

(* C22: a cache entry, once written, keeps its data and expiry while       *)
(* now < expiry: no request replaces it before it has expired              *)
C22_ImmutableUntilExpiry ==
    [][\A k \in DOMAIN cache :
           now < cache[k].expiry =>
               k \in DOMAIN cache' /\ cache'[k] = cache[k]]_vars

(* C23: every successful response of handleTryOn and of handleCreateVideo  *)
(* carries a boolean cache_hit, true exactly when the request was served   *)
(* without a provider call                                                 *)
C23_CacheHitFlag ==
    (last.action \in {"tryOn", "createVideo"} /\ last.resp.success) =>
        /\ last.resp.hasCacheHit
        /\ last.resp.cache_hit <=> last.calls = 0

(* C24: a tryOn request that has finished has written its cache entry      *)
(* exactly if it has written its history entry, and one that answered with *)
(* an error, a storage failure included, has written neither (stated for   *)
(* the requests whose provider result was an object)                       *)
C24_CommittedTogether ==
    \A p \in Slots :
        (/\ procs[p].action = "tryOn" /\ procs[p].pc = "done"
         /\ procs[p].error # "TypeError") =>
            /\ procs[p].saved <=> procs[p].logged
            /\ ~procs[p].success => ~procs[p].saved /\ ~procs[p].logged

C27_LoadOnce ==
    /\ [][envLoader'.calls = envLoader.calls + 1 =>
             /\ (envLoader.loaded =>
                    /\ envLoader'.fetches = envLoader.fetches
                    /\ ~envLoader'.last.fetched
                    /\ envLoader'.envVars = envLoader.envVars
                    /\ envLoader'.loaded
                    /\ envLoader'.last.returned = envLoader.envVars)
             /\ (~envLoader.loaded =>
                    /\ envLoader'.fetches = envLoader.fetches + 1
                    /\ envLoader'.last.fetched
                    /\ (envLoader'.last.fetchFailed =>
                           /\ ~envLoader'.loaded
                           /\ envLoader'.envVars = << >>)
                    /\ (~envLoader'.last.fetchFailed => envLoader'.loaded))
             /\ (envLoader'.last.op \in {"get", "getGeminiApiKey"} =>
                    envLoader'.last.value =
                        EnvVar(envLoader'.envVars, envLoader'.last.key))]_vars
    /\ [](/\ (envLoader.loaded =>
                 envLoader.envVars = parseEnvContent(envLoader.source))
           /\ (~envLoader.loaded => envLoader.envVars = << >>)
           /\ envLoader.fetches <= envLoader.calls)

\* a failed load, then a load that succeeded, then a get served without a
\* fetch from the variables loaded, the later of two lines having won
C27_Witness ==
    /\ envLoader.calls = 3
    /\ envLoader.fetches = 2
    /\ envLoader.loaded
    /\ envLoader.last.op = "get" /\ ~envLoader.last.fetched
    /\ envLoader.last.value = "k2"

PairAt(n, k) ==
    LET person == (k - 1) \div (n - 1)
        rest == (k - 1) % (n - 1)
    IN  [person |-> person,
         garment |-> IF rest < person THEN rest ELSE rest + 1]

FramePending(a) == \E k \in 1..Len(a.due) : a.due[k] = "raf"

(* C29: the root has 'passport-open' only while the console is expanded    *)
(* and visible (or about to be, its animation frame waiting), and a        *)
(* console that has collapsed has its passport closed                      *)
C29_PassportOnlyWhenOpen ==
    /\ atelier.passportOpen =>
           atelier.expanded /\ (atelier.visible \/ FramePending(atelier))
    /\ ~atelier.expanded => ~atelier.passportOpen

(* C30: a click on the locket while the console is not visible leaves it   *)
(* expanded and visible (or about to be, its animation frame waiting), a   *)
(* click while it is visible leaves it hidden, whenever the click comes;   *)
(* and once no callback is waiting the console is expanded exactly when    *)
(* it is visible                                                           *)
C30_LocketToggles ==
    /\ [][(atelier'.events = atelier.events + 1
               /\ atelier'.lastEvent = "locket") =>
             IF atelier.visible
             THEN ~atelier'.visible
             ELSE atelier'.expanded
                    /\ (atelier'.visible \/ FramePending(atelier'))]_vars
    /\ [](atelier.due = << >> => (atelier.expanded <=> atelier.visible))

====
